---- MODULE Spec2Model ----
(***************************************************************************)
(* Type inference engine of firstlang (src/firstlang/src/ast):             *)
(*   - the Type model and the unification primitives push / sync /        *)
(*     push_complete (type_inference.rs, impl PushType for Type);          *)
(*   - Local Determination (infer_locally), Upward Propagation (infer_up), *)
(*     the Fixpoint Driver (infer_types_with_env) and the Program Driver   *)
(*     (infer_types).                                                      *)
(* Two specifications share the variables:                                 *)
(*   SpecPrim  applies the primitives to pairs of Types;                   *)
(*   Spec      runs the Program Driver over a program, one Upward          *)
(*             Propagation pass per step.                                  *)
(***************************************************************************)
EXTENDS Integers, Sequences, FiniteSets, TLC

VARIABLES
    lhs, rhs, calls,                \* SpecPrim: two Types and the calls made on them
    exprs, exprs0, global_env,      \* Spec: the program (mutated in place), its input, the seeded env
    idx, local_env, previous_state, \* Spec: position of infer_types' loop, env and snapshot of the run
    iter, pc, result                \* Spec: pass counter, control point, outcome

varsPrim == <<lhs, rhs, calls>>
varsDriver == <<exprs, exprs0, global_env, idx, local_env, previous_state, iter, pc, result>>
vars == <<lhs, rhs, calls, exprs, exprs0, global_env, idx, local_env, previous_state, iter, pc, result>>

(***************************************************************************)
(* Bounds of the model.                                                    *)
(***************************************************************************)
\* Types drawn for the primitives have at most this many constructors.
MaxTypeSize == 3
\* Number of primitive calls made in a row on one pair of Types.
MaxCalls == 2
\* Unary and binary expressions have at most this many nodes.
MaxExprNodes == 5
\* Statements in a function, loop or block body.
MaxBody == 2
\* Parameters of a declaration, arguments of a call.
MaxArity == 1
\* Passes followed of the driver that repeats Upward Propagation with no ceiling.
MaxPasses == 4
\* The ceiling of the Fixpoint Driver's loop (`let max_iterations = 1024`),
\* scaled: a run that is stopped by the ceiling makes one changing pass per
\* iteration, whatever the ceiling is.
MaxIterations == 12

(***************************************************************************)
(* Type (typed.rs: enum Type, enum ScalarKind).                            *)
(***************************************************************************)
Unknown == [tag |-> "Unknown"]
Unit == [tag |-> "Unit"]
Scalar(k) == [tag |-> "Scalar", kind |-> k]
Function(ps, r) == [tag |-> "Function", params |-> ps, ret |-> r]
ScalarKind == {"Int", "Bool"}
IntT == Scalar("Int")
BoolT == Scalar("Bool")

is_numeric(k) == k = "Int"

\* Errors (anyhow::bail! sites), by kind; ident is the name the message carries.
NoErr == [kind |-> "none", ident |-> ""]
Err(k, n) == [kind |-> k, ident |-> n]
TypeMismatch == Err("type-mismatch", "")

\* A primitive's outcome: the receiver after the call, Ok(changed) or Err.
PR(t, c, e) == [ty |-> t, changed |-> c, err |-> e]
\* sync's outcome: both Types after the call.
SR(a, b, c, e) == [self |-> a, other |-> b, changed |-> c, err |-> e]

RECURSIVE push(_, _)
RECURSIVE push_params(_, _, _, _)

\* The loop over params.iter_mut().zip(other_params) of push; `?` leaves the
\* parameters already pushed as they are and stops.
push_params(ps, os, i, changed) ==
    IF i > Len(ps) THEN [tys |-> ps, changed |-> changed, err |-> NoErr]
    ELSE LET r == push(ps[i], os[i]) IN
         IF r.err # NoErr THEN [tys |-> ps, changed |-> FALSE, err |-> r.err]
         ELSE push_params([ps EXCEPT ![i] = r.ty], os, i + 1, changed \/ r.changed)

\* A plausible slip: a resolved receiver is overwritten by the pushed type.
push_overwrite(self, other) ==
    IF other = Unknown THEN PR(self, FALSE, NoErr)
    ELSE IF self = Unknown THEN PR(other, TRUE, NoErr)
    ELSE IF self.tag = other.tag
              /\ (self.tag = "Scalar" => self.kind = other.kind)
              /\ (self.tag = "Function" => Len(self.params) = Len(other.params))
         THEN PR(other, self # other, NoErr)
    ELSE PR(self, FALSE, TypeMismatch)

push(self, other) ==
    IF other = Unknown THEN PR(self, FALSE, NoErr)
    ELSE IF self = Unknown THEN PR(other, TRUE, NoErr)
    ELSE IF self.tag = "Scalar" /\ other.tag = "Scalar" /\ self.kind = other.kind
         THEN PR(self, FALSE, NoErr)
    ELSE IF self.tag = "Function" /\ other.tag = "Function"
              /\ Len(self.params) = Len(other.params)
         THEN LET p == push_params(self.params, other.params, 1, FALSE) IN
              IF p.err # NoErr
              THEN PR(Function(p.tys, self.ret), FALSE, p.err)
              ELSE LET r == push(self.ret, other.ret) IN
                   IF r.err # NoErr
                   THEN PR(Function(p.tys, r.ty), FALSE, r.err)
                   ELSE PR(Function(p.tys, r.ty), p.changed \/ r.changed, NoErr)
    ELSE PR(self, FALSE, TypeMismatch)

\* Ok(self.push(other)? || other.push(self)?): `||` does not evaluate its
\* right operand when the left one is true.
sync_other(p, q) ==
    IF q.err # NoErr THEN SR(p.ty, q.ty, FALSE, q.err)
    ELSE SR(p.ty, q.ty, q.changed, NoErr)
sync_self(p, other) ==
    IF p.err # NoErr THEN SR(p.ty, other, FALSE, p.err)
    ELSE IF p.changed THEN SR(p.ty, other, TRUE, NoErr)
    ELSE sync_other(p, push(other, p.ty))
sync(self, other) == sync_self(push(self, other), other)

push_complete(self, other) ==
    IF other.tag = "Scalar" /\ self = Unknown THEN PR(other, TRUE, NoErr)
    ELSE IF other.tag = "Scalar" /\ self = other THEN PR(self, FALSE, NoErr)
    ELSE IF other.tag = "Function" /\ self = Unknown THEN PR(other, TRUE, NoErr)
    ELSE IF other.tag = "Function" /\ self = other THEN PR(self, FALSE, NoErr)
    ELSE IF other.tag = "Unit" /\ self = Unknown THEN PR(other, TRUE, NoErr)
    ELSE IF other.tag = "Unit" /\ self = other THEN PR(self, FALSE, NoErr)
    ELSE PR(self, FALSE, TypeMismatch)

(***************************************************************************)
(* Expr (typed.rs: struct Expr, enum ExprKind).  A node is a record with   *)
(* its kind, its kind's fields and ty.  The constructors give each node    *)
(* the Type the parser gives it (syntax/typed_parser.rs).                  *)
(***************************************************************************)
UnaryOp == {"Plus", "Minus"}
BinaryOp == {"Add", "Sub", "Mul", "LessThan", "GreaterThan"}

is_comparison(op) == op \in {"LessThan", "GreaterThan"}

Literal(k) == [kind |-> "Literal", lit |-> k, ty |-> Scalar(k)]
Identifier(n) == [kind |-> "Identifier", name |-> n, ty |-> Unknown]
UnaryExpr(op, c) == [kind |-> "UnaryExpr", op |-> op, child |-> c, ty |-> Unknown]
BinaryExpr(op, l, r) == [kind |-> "BinaryExpr", op |-> op, lhs |-> l, rhs |-> r, ty |-> Unknown]
Return(v) == [kind |-> "Return", value |-> v, ty |-> Unknown]
Assignment(n, v) == [kind |-> "Assignment", ident |-> n, value |-> v, ty |-> Unknown]
Conditional(c, t, f) ==
    [kind |-> "Conditional", cond |-> c, on_true |-> t, on_false |-> f, ty |-> Unknown]
Loop(c, b) == [kind |-> "Loop", cond |-> c, body |-> b, ty |-> Unit]
Parameter(n, t) == [ident |-> n, ty |-> t]
\* parse_function: the node's ty is the declared signature, Unknown for an omitted return type.
FunctionDef(n, ps, out, b) ==
    [kind |-> "Function", ident |-> n, params |-> ps, body |-> b,
     ty |-> Function([i \in 1..Len(ps) |-> ps[i].ty], out)]
Call(n, as) == [kind |-> "Call", ident |-> n, args |-> as, ty |-> Unknown]
Block(es) == [kind |-> "Block", exprs |-> es, ty |-> Unknown]

(***************************************************************************)
(* TypeMap (HashMap<Identifier, Type>): a function from the bound names.   *)
(***************************************************************************)
EmptyEnv == [n \in {} |-> Unknown]
contains_key(env, k) == k \in DOMAIN env
insert(env, k, v) == [n \in DOMAIN env \cup {k} |-> IF n = k THEN v ELSE env[n]]
remove(env, k) == [n \in DOMAIN env \ {k} |-> env[n]]

\* Option<T>
None == [some |-> FALSE]
Some(v) == [some |-> TRUE, val |-> v]

(***************************************************************************)
(* partially_typed and children (typed.rs).                                *)
(***************************************************************************)
RECURSIVE children(_)
children(node) ==
    CASE node.kind \in {"Identifier", "Literal"} -> <<>>
      [] node.kind = "UnaryExpr" -> <<node.child>>
      [] node.kind = "BinaryExpr" -> <<node.lhs, node.rhs>>
      [] node.kind = "Return" -> <<node.value>>
      [] node.kind = "Assignment" -> <<node.value>>
      [] node.kind = "Conditional" ->
            children(node.cond) \o children(node.on_true) \o children(node.on_false)
      [] node.kind = "Loop" -> <<node.cond>> \o node.body
      [] node.kind = "Function" -> node.body
      [] node.kind = "Call" -> node.args
      [] node.kind = "Block" -> node.exprs

\* A plausible slip: only the node's own type is looked at.
partially_typed_shallow(node) == node.ty = Unknown

RECURSIVE partially_typed(_)
partially_typed(node) ==
    IF node.ty = Unknown THEN TRUE
    ELSE LET cs == children(node) IN \E i \in 1..Len(cs) : partially_typed(cs[i])

(***************************************************************************)
(* Local Determination: infer_locally, one operator per match arm.  An     *)
(* outcome st carries the node and the environment as the statements run   *)
(* so far leave them, the `changed` flag and the error of a `?` that       *)
(* returned early; the statements after an error are skipped.  A field of  *)
(* the node is named as in the source: "self" is self.ty, "lhs" is lhs.ty. *)
(***************************************************************************)
R(n, env, c, e) == [node |-> n, env |-> env, changed |-> c, err |-> e]
Fail(n, env, e) == R(n, env, FALSE, e)
RS(ns, env, c, e) == [nodes |-> ns, env |-> env, changed |-> c, err |-> e]
Start(node, env) == R(node, env, FALSE, NoErr)

ty_of(node, f) ==
    CASE f = "self" -> node.ty
      [] f = "ret" -> node.ty.ret
      [] f = "body.last" -> node.body[Len(node.body)].ty
      [] f = "exprs.last" -> node.exprs[Len(node.exprs)].ty
      [] OTHER -> node[f].ty

with_ty(node, f, t) ==
    CASE f = "self" -> [node EXCEPT !.ty = t]
      [] f = "ret" -> [node EXCEPT !.ty.ret = t]
      [] f = "body.last" -> [node EXCEPT !.body[Len(node.body)].ty = t]
      [] f = "exprs.last" -> [node EXCEPT !.exprs[Len(node.exprs)].ty = t]
      [] OTHER -> [node EXCEPT ![f].ty = t]

\* `changed |= r?` where the call left the node as n
Step(st, n, r) ==
    [st EXCEPT !.node = n,
               !.changed = r.err = NoErr /\ (st.changed \/ r.changed),
               !.err = r.err]

\* changed |= <f>.push(&other)?
push_into(st, f, other) ==
    IF st.err # NoErr THEN st
    ELSE LET r == push(ty_of(st.node, f), other) IN Step(st, with_ty(st.node, f, r.ty), r)

\* changed |= <f>.push(&<g>)?
push_fields(st, f, g) ==
    IF st.err # NoErr THEN st ELSE push_into(st, f, ty_of(st.node, g))

\* changed |= <f>.push_complete(t)?
push_complete_into(st, f, t) ==
    IF st.err # NoErr THEN st
    ELSE LET r == push_complete(ty_of(st.node, f), t) IN Step(st, with_ty(st.node, f, r.ty), r)

\* changed |= <f>.sync(&mut <g>)?
sync_fields(st, f, g) ==
    IF st.err # NoErr THEN st
    ELSE LET s == sync(ty_of(st.node, f), ty_of(st.node, g)) IN
         Step(st, with_ty(with_ty(st.node, f, s.self), g, s.other), s)

RECURSIVE infer_locally(_, _)
RECURSIVE infer_locally_seq(_, _, _, _)

\* for expr in exprs.iter_mut() { changed |= expr.infer_locally(env)?; }
infer_locally_seq(es, env, i, changed) ==
    IF i > Len(es) THEN RS(es, env, changed, NoErr)
    ELSE LET r == infer_locally(es[i], env) IN
         IF r.err # NoErr THEN RS([es EXCEPT ![i] = r.node], r.env, FALSE, r.err)
         ELSE infer_locally_seq([es EXCEPT ![i] = r.node], r.env, i + 1, changed \/ r.changed)

\* The loop above run on the sequence <f> of the node: body, args or exprs.
locally_each_done(st, f, rs) ==
    [st EXCEPT !.node = [st.node EXCEPT ![f] = rs.nodes],
               !.env = rs.env,
               !.changed = rs.err = NoErr /\ (st.changed \/ rs.changed),
               !.err = rs.err]
locally_each(st, f) ==
    IF st.err # NoErr THEN st
    ELSE locally_each_done(st, f, infer_locally_seq(st.node[f], st.env, 1, FALSE))

\* A plausible slip: an unbound name is left for a later pass.
local_Identifier_lenient(node, env) ==
    IF contains_key(env, node.name)
    THEN push_into(Start(node, env), "self", env[node.name])
    ELSE Start(node, env)

local_Identifier(node, env) ==
    IF contains_key(env, node.name)
    THEN push_into(Start(node, env), "self", env[node.name])
    ELSE Fail(node, env, Err("undefined-identifier", node.name))

local_Literal(node, env) ==
    push_complete_into(Start(node, env), "self", Scalar(node.lit))

local_UnaryExpr(node, env) ==
    IF node.child.ty.tag = "Scalar" /\ is_numeric(node.child.ty.kind)
    THEN push_fields(Start(node, env), "self", "child")
    ELSE IF node.child.ty = Unknown THEN Start(node, env)
    ELSE Fail(node, env, Err("not-numeric", ""))

\* elem_type.push(&ty)?
elem_push(elem, ty) == IF elem.err # NoErr THEN elem ELSE push(elem.ty, ty)
\* let elem_type = &mut Type::Unknown; elem_type.push(&lhs.ty)?; elem_type.push(&rhs.ty)?;
\* if !op.is_comparison() { elem_type.push(&self.ty)?; }
elem_type(node) ==
    IF is_comparison(node.op)
    THEN elem_push(push(Unknown, node.lhs.ty), node.rhs.ty)
    ELSE elem_push(elem_push(push(Unknown, node.lhs.ty), node.rhs.ty), node.ty)

\* "push the elem_type back into left and right", then the node's own type
push_elem_type(st, elem) ==
    IF elem.err # NoErr THEN Fail(st.node, st.env, elem.err)
    ELSE IF is_comparison(st.node.op)
    THEN push_complete_into(push_into(push_into(st, "lhs", elem.ty), "rhs", elem.ty),
                            "self", BoolT)
    ELSE push_into(push_into(push_into(st, "lhs", elem.ty), "rhs", elem.ty),
                   "self", elem.ty)

\* A plausible slip: the node takes the type of its left operand.
local_BinaryExpr_typed_by_lhs(node, env) == push_fields(Start(node, env), "self", "lhs")

\* A plausible slip: the operands are required to be numeric, as the unary
\* operator's child is.
local_BinaryExpr_numeric_only(node, env) ==
    IF \E t \in {node.lhs.ty, node.rhs.ty} : t \notin {IntT, Unknown}
    THEN Fail(node, env, Err("not-numeric", ""))
    ELSE push_elem_type(Start(node, env), elem_type(node))

local_BinaryExpr(node, env) == push_elem_type(Start(node, env), elem_type(node))

local_Return(node, env) ==
    push_fields(push_fields(Start(node, env), "value", "self"), "self", "value")

\* changed |= existing_type.sync(&mut value.ty)?
sync_existing(st, s) ==
    [st EXCEPT !.node = [st.node EXCEPT !.value.ty = s.other],
               !.env = [st.env EXCEPT ![st.node.ident] = s.self],
               !.changed = s.err = NoErr /\ (st.changed \/ s.changed),
               !.err = s.err]

\* A plausible slip: the assignment rebinds the name instead of syncing the
\* existing binding with the value.
sync_or_insert_rebinding(st) ==
    [st EXCEPT !.env = insert(st.env, st.node.ident, st.node.value.ty), !.changed = TRUE]

\* if let Some(existing_type) = env.get_mut(ident) { .. } else { env.insert(..); changed = true; }
sync_or_insert(st) ==
    IF contains_key(st.env, st.node.ident)
    THEN sync_existing(st, sync(st.env[st.node.ident], st.node.value.ty))
    ELSE [st EXCEPT !.env = insert(st.env, st.node.ident, st.node.value.ty), !.changed = TRUE]

local_Assignment(node, env) ==
    sync_fields(sync_or_insert(Start(node, env)), "self", "value")

\* A plausible slip: the condition is never pushed to Scalar(Bool).
local_Conditional_unchecked_cond(node, env) ==
    sync_fields(sync_fields(Start(node, env), "self", "on_true"), "self", "on_false")

local_Conditional(node, env) ==
    sync_fields(sync_fields(push_complete_into(Start(node, env), "cond", BoolT),
                            "self", "on_true"),
                "self", "on_false")

local_Loop(node, env) == push_complete_into(Start(node, env), "self", Unit)

\* if let Type::Function(..) = self.ty { .. } else { bail!(..) }
expect_function(st) ==
    IF st.err # NoErr \/ st.node.ty.tag = "Function" THEN st
    ELSE Fail(st.node, st.env, Err("expected-function-type", ""))

\* changed |= param_ty.sync(&mut param_expr.ty)?
sync_param(st, i, s) ==
    Step(st, [st.node EXCEPT !.ty.params[i] = s.self, !.params[i].ty = s.other], s)

RECURSIVE sync_params(_, _)
\* for (param_ty, param_expr) in param_types.iter_mut().zip(params.iter_mut()) { .. }
sync_params(st, i) ==
    IF st.err # NoErr \/ i > Len(st.node.ty.params) \/ i > Len(st.node.params) THEN st
    ELSE sync_params(sync_param(st, i, sync(st.node.ty.params[i], st.node.params[i].ty)),
                     i + 1)

\* A plausible slip: the declared return type is pushed into the last
\* statement and nothing flows back into res_type.
push_res_type_down(st) ==
    IF st.err # NoErr THEN st
    ELSE IF Len(st.node.body) > 0 THEN push_fields(st, "body.last", "ret")
    ELSE [st EXCEPT !.node = [st.node EXCEPT !.ty.ret = Unit]]

\* if let Some(last_expr) = body.last_mut() { changed |= res_type.sync(&mut last_expr.ty)?; }
\* else { *res_type = Box::new(Type::Unit); }
sync_res_type(st) ==
    IF st.err # NoErr THEN st
    ELSE IF Len(st.node.body) > 0 THEN sync_fields(st, "ret", "body.last")
    ELSE [st EXCEPT !.node = [st.node EXCEPT !.ty.ret = Unit]]

local_Function(node, env) ==
    LET base_type == Function([i \in 1..Len(node.params) |-> Unknown], Unknown) IN
    sync_res_type(
        locally_each(
            sync_params(expect_function(push_into(Start(node, env), "self", base_type)), 1),
            "body"))

\* A plausible slip: an argument whose type is still Unknown passes the check.
call_type_unifying(st) ==
    IF st.err # NoErr THEN st
    ELSE IF ~contains_key(st.env, st.node.ident)
    THEN Fail(st.node, st.env, Err("function-not-defined", st.node.ident))
    ELSE IF st.env[st.node.ident].tag # "Function"
    THEN Fail(st.node, st.env, Err("not-a-function", st.node.ident))
    ELSE IF Len(st.env[st.node.ident].params) # Len(st.node.args)
    THEN Fail(st.node, st.env, Err("arity-mismatch", st.node.ident))
    ELSE IF \E i \in 1..Len(st.node.args) :
                /\ st.node.args[i].ty # Unknown
                /\ st.node.args[i].ty # st.env[st.node.ident].params[i]
    THEN Fail(st.node, st.env, Err("argument-type", st.node.ident))
    ELSE R([st.node EXCEPT !.ty = st.env[st.node.ident].ret], st.env, TRUE, NoErr)

\* The lookup of the callee and the checks of the arguments against its type.
call_type(st) ==
    IF st.err # NoErr THEN st
    ELSE IF ~contains_key(st.env, st.node.ident)
    THEN Fail(st.node, st.env, Err("function-not-defined", st.node.ident))
    ELSE IF st.env[st.node.ident].tag # "Function"
    THEN Fail(st.node, st.env, Err("not-a-function", st.node.ident))
    ELSE IF Len(st.env[st.node.ident].params) # Len(st.node.args)
    THEN Fail(st.node, st.env, Err("arity-mismatch", st.node.ident))
    ELSE IF \E i \in 1..Len(st.node.args) :
                st.node.args[i].ty # st.env[st.node.ident].params[i]
    THEN Fail(st.node, st.env, Err("argument-type", st.node.ident))
    ELSE R([st.node EXCEPT !.ty = st.env[st.node.ident].ret], st.env, TRUE, NoErr)

\* A plausible slip: the node is typed like the callee's binding, by push.
local_Call_typed_as_callee(node, env) ==
    IF contains_key(env, node.ident)
    THEN push_into(Start(node, env), "self", env[node.ident])
    ELSE Fail(node, env, Err("function-not-defined", node.ident))

local_Call(node, env) == call_type(locally_each(Start(node, env), "args"))

\* self.ty.push_complete(Type::Unit)?  -- the returned flag is dropped
push_complete_unit(st, r) ==
    [st EXCEPT !.node = [st.node EXCEPT !.ty = r.ty],
               !.changed = r.err = NoErr /\ st.changed,
               !.err = r.err]
block_type(st) ==
    IF st.err # NoErr THEN st
    ELSE IF Len(st.node.exprs) > 0 THEN push_fields(st, "self", "exprs.last")
    ELSE push_complete_unit(st, push_complete(st.node.ty, Unit))

local_Block(node, env) == block_type(locally_each(Start(node, env), "exprs"))

infer_locally(node, env) ==
    CASE node.kind = "Identifier" -> local_Identifier(node, env)
      [] node.kind = "Literal" -> local_Literal(node, env)
      [] node.kind = "UnaryExpr" -> local_UnaryExpr(node, env)
      [] node.kind = "BinaryExpr" -> local_BinaryExpr(node, env)
      [] node.kind = "Return" -> local_Return(node, env)
      [] node.kind = "Assignment" -> local_Assignment(node, env)
      [] node.kind = "Conditional" -> local_Conditional(node, env)
      [] node.kind = "Loop" -> local_Loop(node, env)
      [] node.kind = "Function" -> local_Function(node, env)
      [] node.kind = "Call" -> local_Call(node, env)
      [] node.kind = "Block" -> local_Block(node, env)

(***************************************************************************)
(* Upward Propagation: infer_up.  Its outcome d also carries old_bindings; *)
(* a `?` that returns early leaves the environment as it is at that point. *)
(***************************************************************************)
\* type Binding = (Identifier, Option<Type>)
Binding(symbol, opt) == [symbol |-> symbol, opt |-> opt]
\* env.insert(k, v) returns the previous value
previous(env, k) == IF contains_key(env, k) THEN Some(env[k]) ELSE None

RECURSIVE bind_params(_, _, _, _)
\* for p in params { let previous = env.insert(p.ident.clone(), p.ty.clone());
\*                   old_bindings.push((p.ident.clone(), previous)); }
bind_params(params, env, old_bindings, i) ==
    IF i > Len(params) THEN [env |-> env, old_bindings |-> old_bindings]
    ELSE bind_params(params,
                     insert(env, params[i].ident, params[i].ty),
                     Append(old_bindings, Binding(params[i].ident, previous(env, params[i].ident))),
                     i + 1)

RECURSIVE undo_bindings(_, _, _)
\* for (symbol, opt) in old_bindings { Some(old) => env.insert(symbol, old), None => env.remove(&symbol) }
undo_bindings(old_bindings, env, i) ==
    IF i > Len(old_bindings) THEN env
    ELSE undo_bindings(old_bindings,
                       IF old_bindings[i].opt.some
                       THEN insert(env, old_bindings[i].symbol, old_bindings[i].opt.val)
                       ELSE remove(env, old_bindings[i].symbol),
                       i + 1)

D(n, env, old, c, e) == [node |-> n, env |-> env, old_bindings |-> old, changed |-> c, err |-> e]

RECURSIVE infer_up(_, _)
RECURSIVE infer_up_seq(_, _, _, _)

\* for expr in exprs.iter_mut() { changed |= expr.infer_up(env)?; }
infer_up_seq(es, env, i, changed) ==
    IF i > Len(es) THEN RS(es, env, changed, NoErr)
    ELSE LET r == infer_up(es[i], env) IN
         IF r.err # NoErr THEN RS([es EXCEPT ![i] = r.node], r.env, FALSE, r.err)
         ELSE infer_up_seq([es EXCEPT ![i] = r.node], r.env, i + 1, changed \/ r.changed)

\* The loop above run on the sequence <f> of the node: body, args or exprs.
up_each(d, f) ==
    IF d.err # NoErr THEN d
    ELSE locally_each_done(d, f, infer_up_seq(d.node[f], d.env, 1, FALSE))

\* changed |= <f>.infer_up(env)?
up_into_done(d, f, r) ==
    [d EXCEPT !.node = [d.node EXCEPT ![f] = r.node],
              !.env = r.env,
              !.changed = r.err = NoErr /\ (d.changed \/ r.changed),
              !.err = r.err]
up_into(d, f) ==
    IF d.err # NoErr THEN d ELSE up_into_done(d, f, infer_up(d.node[f], d.env))

\* The bindings for the Function variant, made before the match.
bind_before_match(node, env) ==
    IF node.kind = "Function"
    THEN LET b == bind_params(node.params, env, <<>>, 1) IN
         D(node, b.env, b.old_bindings, FALSE, NoErr)
    ELSE D(node, env, <<>>, FALSE, NoErr)

up_UnaryExpr(d) == up_into(d, "child")

\* A plausible slip: only the left operand is descended into.
up_BinaryExpr_lhs_only(d) == up_into(d, "lhs")

up_BinaryExpr(d) == up_into(up_into(d, "lhs"), "rhs")

up_Return(d) == up_into(d, "value")

\* if !env.contains_key(ident) { env.insert(ident.clone(), value.ty.clone()); }
insert_if_absent(d) ==
    IF d.err # NoErr \/ contains_key(d.env, d.node.ident) THEN d
    ELSE [d EXCEPT !.env = insert(d.env, d.node.ident, d.node.value.ty)]

\* A plausible slip: the value is not descended into.
up_Assignment_no_descent(d) == sync_fields(insert_if_absent(d), "self", "value")

up_Assignment(d) == sync_fields(insert_if_absent(up_into(d, "value")), "self", "value")

\* env.insert(ident.clone(), self.ty.clone()); for p in params { .. }
bind_in_match(d) ==
    LET b == bind_params(d.node.params, insert(d.env, d.node.ident, d.node.ty),
                         d.old_bindings, 1)
    IN [d EXCEPT !.env = b.env, !.old_bindings = b.old_bindings]

up_Function(d) == up_each(bind_in_match(d), "body")

up_Block(d) == up_each(d, "exprs")

up_Conditional(d) == up_into(up_into(up_into(d, "cond"), "on_true"), "on_false")

\* if let Some(ty) = env.get(ident) { changed |= self.ty.push(ty)?; } else { bail!(..) }
push_callee_type(d) ==
    IF d.err # NoErr THEN d
    ELSE IF contains_key(d.env, d.node.ident) THEN push_into(d, "self", d.env[d.node.ident])
    ELSE [d EXCEPT !.changed = FALSE, !.err = Err("function-not-defined", d.node.ident)]

up_Call(d) == push_callee_type(up_each(d, "args"))

\* match self.kind { .. }
up_match(d) ==
    CASE d.node.kind \in {"Identifier", "Literal", "Loop"} -> d
      [] d.node.kind = "UnaryExpr" -> up_UnaryExpr(d)
      [] d.node.kind = "BinaryExpr" -> up_BinaryExpr(d)
      [] d.node.kind = "Return" -> up_Return(d)
      [] d.node.kind = "Assignment" -> up_Assignment(d)
      [] d.node.kind = "Function" -> up_Function(d)
      [] d.node.kind = "Block" -> up_Block(d)
      [] d.node.kind = "Conditional" -> up_Conditional(d)
      [] d.node.kind = "Call" -> up_Call(d)

\* Undo symbol bindings.
undo(d) ==
    IF d.err # NoErr THEN d
    ELSE [d EXCEPT !.env = undo_bindings(d.old_bindings, d.env, 1)]

\* changed |= self.infer_locally(env)?; Ok(changed)
up_locally_done(d, l) ==
    R(l.node, l.env, l.err = NoErr /\ (d.changed \/ l.changed), l.err)
up_locally(d) ==
    IF d.err # NoErr THEN Fail(d.node, d.env, d.err)
    ELSE up_locally_done(d, infer_locally(d.node, d.env))

\* A plausible slip: the traversal descends into a Loop like into any node.
up_Loop(d) == up_each(up_into(d, "cond"), "body")
infer_up_descending_into_loops(node, env) ==
    up_locally(undo(IF node.kind = "Loop" THEN up_Loop(bind_before_match(node, env))
                    ELSE up_match(bind_before_match(node, env))))

infer_up(node, env) == up_locally(undo(up_match(bind_before_match(node, env))))

(***************************************************************************)
(* Fixpoint Driver (infer_types_with_env) and Program Driver (infer_types).*)
(***************************************************************************)
max_iterations == MaxIterations

RECURSIVE seed_all_but_last(_, _, _)
\* A plausible slip: the loop stops one expression short.
seed_all_but_last(es, env, i) ==
    IF i >= Len(es) THEN env
    ELSE seed_all_but_last(es,
                           IF es[i].kind = "Function" THEN insert(env, es[i].ident, es[i].ty)
                           ELSE env,
                           i + 1)

RECURSIVE seed_global_env(_, _, _)
\* for expr in &exprs { if let ExprKind::Function(..) = &expr.kind
\*                        { global_env.insert(ident.clone(), expr.ty.clone()); } }
seed_global_env(es, env, i) ==
    IF i > Len(es) THEN env
    ELSE seed_global_env(es,
                         IF es[i].kind = "Function" THEN insert(env, es[i].ident, es[i].ty)
                         ELSE env,
                         i + 1)

\* A plausible slip: the loop returns as soon as the tree is typed, whatever
\* the pass reported.
after_infer_up_until_typed(r, prev, n) ==
    IF r.err # NoErr
    THEN [node |-> r.node, env |-> r.env, prev |-> prev, go |-> "err", err |-> r.err]
    ELSE IF ~partially_typed(r.node)
    THEN [node |-> r.node, env |-> r.env, prev |-> prev, go |-> "ok", err |-> NoErr]
    ELSE IF ~r.changed
    THEN [node |-> r.node, env |-> r.env, prev |-> prev, go |-> "err",
          err |-> Err("could-not-infer", "")]
    ELSE IF Some(r.env) = prev
    THEN [node |-> r.node, env |-> r.env, prev |-> prev, go |-> "err",
          err |-> Err("inference-loop", "")]
    ELSE [node |-> r.node, env |-> r.env, prev |-> Some(r.env), go |-> "continue", err |-> NoErr]

\* A plausible slip: the loop has no ceiling.
after_infer_up_no_ceiling(r, prev, n) ==
    IF r.err # NoErr
    THEN [node |-> r.node, env |-> r.env, prev |-> prev, go |-> "err", err |-> r.err]
    ELSE IF ~r.changed
    THEN IF partially_typed(r.node)
         THEN [node |-> r.node, env |-> r.env, prev |-> prev, go |-> "err",
               err |-> Err("could-not-infer", "")]
         ELSE [node |-> r.node, env |-> r.env, prev |-> prev, go |-> "ok", err |-> NoErr]
    ELSE IF Some(r.env) = prev
    THEN [node |-> r.node, env |-> r.env, prev |-> prev, go |-> "err",
          err |-> Err("inference-loop", "")]
    ELSE [node |-> r.node, env |-> r.env, prev |-> Some(r.env), go |-> "continue", err |-> NoErr]

\* What the driver does with the outcome r of `self.infer_up(env)` in
\* iteration n of `for _ in 0..max_iterations`: go is "continue", "ok" or "err".
after_infer_up(r, prev, n) ==
    IF r.err # NoErr
    THEN [node |-> r.node, env |-> r.env, prev |-> prev, go |-> "err", err |-> r.err]
    ELSE IF ~r.changed
    THEN IF partially_typed(r.node)
         THEN [node |-> r.node, env |-> r.env, prev |-> prev, go |-> "err",
               err |-> Err("could-not-infer", "")]
         ELSE [node |-> r.node, env |-> r.env, prev |-> prev, go |-> "ok", err |-> NoErr]
    ELSE IF Some(r.env) = prev
    THEN [node |-> r.node, env |-> r.env, prev |-> prev, go |-> "err",
          err |-> Err("inference-loop", "")]
    ELSE IF n + 1 >= max_iterations
    THEN [node |-> r.node, env |-> r.env, prev |-> Some(r.env), go |-> "err",
          err |-> Err("non-convergence", "")]
    ELSE [node |-> r.node, env |-> r.env, prev |-> Some(r.env), go |-> "continue", err |-> NoErr]

fixpoint_step(e, env, prev, n) == after_infer_up(infer_up(e, env), prev, n)

RECURSIVE iterate(_, _, _, _)
RECURSIVE continue_or_return(_, _)
\* for _ in 0..max_iterations { ... }: iterations n, n + 1, ... up to the one
\* that returns.
iterate(e, env, prev, n) == continue_or_return(fixpoint_step(e, env, prev, n), n)
continue_or_return(st, n) ==
    IF st.go = "continue" THEN iterate(st.node, st.env, st.prev, n + 1) ELSE st

RECURSIVE repeat_infer_up(_, _, _)
RECURSIVE after_repeated_pass(_, _)
\* The earlier infer_types_with_env, kept in comments:
\*   loop { if !self.infer_up(env)? { if self.partially_typed() { bail } else { Ok } } }
\* followed for MaxPasses passes; go is "ok", "err", or "running" when the
\* loop has not returned by then.
repeat_infer_up(e, env, n) == after_repeated_pass(infer_up(e, env), n)
after_repeated_pass(r, n) ==
    IF r.err # NoErr THEN [node |-> r.node, env |-> r.env, go |-> "err", err |-> r.err]
    ELSE IF ~r.changed
    THEN IF partially_typed(r.node)
         THEN [node |-> r.node, env |-> r.env, go |-> "err",
               err |-> Err("could-not-infer", "")]
         ELSE [node |-> r.node, env |-> r.env, go |-> "ok", err |-> NoErr]
    ELSE IF n + 1 >= MaxPasses
    THEN [node |-> r.node, env |-> r.env, go |-> "running", err |-> NoErr]
    ELSE repeat_infer_up(r.node, r.env, n + 1)

\* infer_types_with_env as a whole: previous_state starts as None.
infer_types_with_env(e, env) == iterate(e, env, None, 0)

(***************************************************************************)
(* The Types the primitives are applied to: every Type built from at most  *)
(* MaxTypeSize constructors.                                               *)
(***************************************************************************)
BaseTypes == {Unknown, Unit, IntT, BoolT}

RECURSIVE TypesOfSize(_)
RECURSIVE TypeSeqsOfSize(_)

\* Sequences of Types whose sizes add up to exactly n (n = 0: the empty one).
TypeSeqsOfSize(n) ==
    IF n = 0 THEN {<<>>}
    ELSE UNION {{<<t>> \o s : t \in TypesOfSize(k), s \in TypeSeqsOfSize(n - k)} : k \in 1..n}

\* Types of exactly n constructors.
TypesOfSize(n) ==
    IF n = 1 THEN BaseTypes
    ELSE UNION {{Function(ps, r) : ps \in TypeSeqsOfSize(n - 1 - k), r \in TypesOfSize(k)}
                  : k \in 1..(n - 1)}

Types == UNION {TypesOfSize(n) : n \in 1..MaxTypeSize}

(***************************************************************************)
(* SpecPrim: the primitives called on a pair of Types.                     *)
(***************************************************************************)
Called(op, r_self, r_other, changed, err) ==
    [op |-> op, self0 |-> lhs, other0 |-> rhs, self |-> r_self, other |-> r_other,
     changed |-> changed, err |-> err]

InitIdleDriver ==
    /\ exprs = <<>> /\ exprs0 = <<>> /\ global_env = <<>>
    /\ idx = 0 /\ local_env = <<>> /\ previous_state = [some |-> FALSE]
    /\ iter = 0 /\ pc = "idle" /\ result = NoErr

InitPrim ==
    /\ lhs \in Types
    /\ rhs \in Types
    /\ calls = <<>>
    /\ InitIdleDriver

\* lhs.push(&rhs)
Push ==
    /\ Len(calls) < MaxCalls
    /\ LET r == push(lhs, rhs) IN
        /\ lhs' = r.ty
        /\ rhs' = rhs
        /\ calls' = Append(calls, Called("push", r.ty, rhs, r.changed, r.err))
    /\ UNCHANGED varsDriver

\* lhs.sync(&mut rhs)
Sync ==
    /\ Len(calls) < MaxCalls
    /\ LET r == sync(lhs, rhs) IN
        /\ lhs' = r.self
        /\ rhs' = r.other
        /\ calls' = Append(calls, Called("sync", r.self, r.other, r.changed, r.err))
    /\ UNCHANGED varsDriver

\* rhs.sync(&mut lhs): the same pair in the other call order
SyncBack ==
    /\ Len(calls) < MaxCalls
    /\ LET r == sync(rhs, lhs) IN
        /\ rhs' = r.self
        /\ lhs' = r.other
        /\ calls' = Append(calls, [op |-> "sync_back", self0 |-> rhs, other0 |-> lhs,
                                   self |-> r.self, other |-> r.other,
                                   changed |-> r.changed, err |-> r.err])
    /\ UNCHANGED varsDriver

\* lhs.push_complete(rhs)
PushComplete ==
    /\ Len(calls) < MaxCalls
    /\ LET r == push_complete(lhs, rhs) IN
        /\ lhs' = r.ty
        /\ rhs' = rhs
        /\ calls' = Append(calls, Called("push_complete", r.ty, rhs, r.changed, r.err))
    /\ UNCHANGED varsDriver

NextPrim == Push \/ Sync \/ SyncBack \/ PushComplete

SpecPrim == InitPrim /\ [][NextPrim]_vars

(***************************************************************************)
(* The programs inference is run on: trees as the parser builds them       *)
(* (syntax/typed_parser.rs), in families that each grow with one bound.    *)
(* Operators of one class stand for their class: inference reads an        *)
(* operator only through is_comparison.                                    *)
(***************************************************************************)
Leaves == {Literal("Int"), Literal("Bool"), Identifier("x")}

SeqsUpTo(S, n) == UNION {[1..k -> S] : k \in 0..n}

RECURSIVE OpExprsOfSize(_)
\* Unary and binary expressions over the leaves, of exactly n nodes.
OpExprsOfSize(n) ==
    IF n = 1 THEN Leaves
    ELSE {UnaryExpr("Minus", c) : c \in OpExprsOfSize(n - 1)}
         \cup UNION {{BinaryExpr(op, l, r) : op \in {"Add", "LessThan"},
                                             l \in OpExprsOfSize(k),
                                             r \in OpExprsOfSize(n - 1 - k)}
                       : k \in 1..(n - 2)}

OpExprs == UNION {OpExprsOfSize(n) : n \in 1..MaxExprNodes}
SmallExprs == UNION {OpExprsOfSize(n) : n \in 1..3}

\* Statements of function, loop and block bodies.
BodyStmts ==
    Leaves
    \cup {Return(e) : e \in Leaves}
    \cup {Assignment("x", Literal("Int")), Assignment("x", Literal("Bool"))}
    \cup {Call("f", <<>>), BinaryExpr("Add", Identifier("x"), Literal("Int"))}
Bodies == SeqsUpTo(BodyStmts, MaxBody)

\* Declarations: parameter i is named ParamName(i) and annotated int or bool;
\* the return type is annotated or omitted.
ParamName(i) == <<"x", "y", "z">>[i]
ParamLists ==
    UNION {{[i \in 1..k |-> Parameter(ParamName(i), ts[i])] : ts \in [1..k -> {IntT, BoolT}]}
             : k \in 0..MaxArity}
OutTypes == {IntT, BoolT, Unknown}

Functions(name) ==
    {FunctionDef(name, ps, out, b) : ps \in ParamLists, out \in OutTypes, b \in Bodies}
\* def f(x: T) [-> R] { e }
FunctionsOverExprs ==
    {FunctionDef("f", <<Parameter("x", t)>>, out, <<e>>) :
        t \in {IntT, BoolT}, out \in OutTypes, e \in OpExprs}

Statements ==
    {Return(e) : e \in SmallExprs}
    \cup {Assignment("x", e) : e \in SmallExprs}
    \cup {Conditional(c, t, f) : c \in Leaves, t \in BodyStmts, f \in BodyStmts}
    \cup {Loop(c, b) : c \in Leaves, b \in Bodies}
    \cup {Block(b) : b \in Bodies}

\* Declarations a second top-level expression refers to: one-statement bodies.
Declarations ==
    {FunctionDef("f", ps, out, b) : ps \in ParamLists, out \in OutTypes,
                                    b \in {<<Return(Identifier("x"))>>, <<Literal("Int")>>}}
\* while (true) { def ... }
LoopsOverDeclarations == {Loop(Literal("Bool"), <<d>>) : d \in Declarations}

\* Uses of the name f: as an identifier and as a callee.
ArgLists == SeqsUpTo(Leaves, MaxArity)
FLeaves == {Identifier("f")} \cup {Call("f", as) : as \in ArgLists}
Uses ==
    FLeaves
    \cup {UnaryExpr("Minus", u) : u \in FLeaves}
    \cup {BinaryExpr(op, u, l) : op \in {"Add", "LessThan"}, u \in FLeaves, l \in Leaves}
    \cup {Return(u) : u \in FLeaves}
    \cup {Assignment("x", u) : u \in FLeaves}
    \cup {Conditional(Literal("Bool"), u, v) : u \in FLeaves, v \in FLeaves}

\* Conditionals over the leaves, below a Return, a Block, a Function and a Loop.
NestedConditionals ==
    UNION {{Return(c), Block(<<c>>), FunctionDef("f", <<>>, Unknown, <<c>>),
            Loop(Literal("Bool"), <<c>>)}
             : c \in {Conditional(k, t, f) : k \in Leaves, t \in Leaves, f \in Leaves}}

\* while (c) { 1 } over the small expressions.
\* and while (x < 1) { x = x + 1 }
LoopsOverConditions ==
    {Loop(c, <<Literal("Int")>>) : c \in SmallExprs}
    \cup {Loop(BinaryExpr("LessThan", Identifier("x"), Literal("Int")),
                <<Assignment("x", BinaryExpr("Add", Identifier("x"), Literal("Int")))>>)}

\* while (true) { e } over the small expressions, ill-typed ones included.
LoopsOverBodies == {Loop(Literal("Bool"), <<e>>) : e \in SmallExprs}
\* A loop as a statement of a Block and of a Function, and as both arms of a
\* Conditional.
NestedLoops ==
    UNION {{Block(<<l, Literal("Int")>>),
            FunctionDef("f", <<>>, Unknown, <<l, Literal("Int")>>),
            Conditional(Literal("Bool"), l, l)}
             : l \in {Loop(Literal("Bool"), <<Literal("Int")>>),
                      Loop(Identifier("x"), <<Literal("Int")>>),
                      Loop(Literal("Bool"),
                           <<BinaryExpr("Add", Literal("Int"), Literal("Bool"))>>)}}

\* Loop nodes built with Expr::new and a type other than the parser's Unit.
PresetLoops ==
    {[Loop(c, b) EXCEPT !.ty = t] :
        c \in Leaves, b \in {<<>>, <<Literal("Int")>>, <<Identifier("x")>>},
        t \in {Unknown, IntT, BoolT}}

\* def f..; def g..; if (true) { a } else { b } over the two names.
TwoDeclarations ==
    {<<FunctionDef("f", <<>>, o1, <<Literal("Int")>>),
       FunctionDef("g", <<>>, o2, <<Literal("Int")>>),
       Conditional(Literal("Bool"), Identifier(a), Identifier(b))>> :
        o1 \in {IntT, Unknown}, o2 \in {IntT, Unknown}, a \in {"f", "g"}, b \in {"f", "g"}}

\* -f and -f() under a declaration of f, and -(while (true) { 1 }): a unary
\* operator over a child typed as a Function, as f's return type, as Unit.
UnaryOperands ==
    {<<FunctionDef("f", <<>>, out, <<Literal("Int")>>), UnaryExpr("Minus", c)>> :
        out \in OutTypes, c \in {Identifier("f"), Call("f", <<>>)}}
    \cup {<<UnaryExpr("Minus", Loop(Literal("Bool"), <<Literal("Int")>>))>>}

\* def f() { f } and def f() { return f }: a declaration with the return
\* type omitted whose body ends in its own name.
SelfReferences ==
    {FunctionDef("f", <<>>, Unknown, <<b>>) :
        b \in {Identifier("f"), Return(Identifier("f"))}}

\* def f..; f(f(a)): a call as the argument of a call.
CallsOverCalls ==
    {<<d, Call("f", <<Call("f", as)>>)>> : d \in Declarations, as \in ArgLists}
\* A declaration whose parameter is left untyped (Parameter { ident, ty:
\* Type::Unknown }), and a call of it.
UntypedParameter ==
    {<<FunctionDef("f", <<Parameter("x", Unknown)>>, IntT, <<Literal("Int")>>),
       Call("f", <<a>>)>> : a \in {Literal("Int"), Literal("Bool")}}

\* def f..; f = v: assignments to a name the global environment binds.
Rebindings ==
    {<<d, Assignment("f", v)>> : d \in Declarations, v \in Leaves \cup {Identifier("f")}}

\* def f.. { g() } with def g.. { f() }
MutualDeclarations(name, callee) ==
    {FunctionDef(name, <<>>, out, b) :
        out \in OutTypes, b \in {<<Call(callee, <<>>)>>, <<Return(Call(callee, <<>>))>>}}

Programs ==
    {<<e>> : e \in OpExprs \cup Statements \cup Functions("f") \cup FunctionsOverExprs
                   \cup LoopsOverDeclarations \cup NestedConditionals
                   \cup LoopsOverConditions \cup PresetLoops
                   \cup LoopsOverBodies \cup NestedLoops \cup SelfReferences}
    \cup {<<d, u>> : d \in Declarations, u \in Uses}
    \cup {<<u, d>> : u \in Uses, d \in Declarations}
    \cup {<<d, e>> : d \in MutualDeclarations("f", "g"), e \in MutualDeclarations("g", "f")}
    \cup {<<Assignment("x", e), u>> : e \in Leaves, u \in SmallExprs}
    \cup Rebindings
    \cup TwoDeclarations
    \cup CallsOverCalls \cup UntypedParameter \cup UnaryOperands

(***************************************************************************)
(* Spec: infer_types over a program.                                       *)
(***************************************************************************)
InitIdlePrim == lhs = Unknown /\ rhs = Unknown /\ calls = <<>>

Init ==
    /\ exprs \in Programs
    /\ exprs0 = exprs
    /\ global_env = EmptyEnv
    /\ idx = 0
    /\ local_env = EmptyEnv
    /\ previous_state = None
    /\ iter = 0
    /\ pc = "seed"
    /\ result = NoErr
    /\ InitIdlePrim

\* infer_types: construct the global environment with function types.
SeedGlobalEnv ==
    /\ pc = "seed"
    /\ global_env' = seed_global_env(exprs, EmptyEnv, 1)
    /\ idx' = 1
    /\ pc' = "next"
    /\ UNCHANGED <<exprs, exprs0, local_env, previous_state, iter, result>>
    /\ UNCHANGED varsPrim

\* A plausible slip: one environment is handed from expression to expression.
StartExpr_shared_env ==
    /\ pc = "next"
    /\ idx <= Len(exprs)
    /\ local_env' = IF idx = 1 THEN global_env ELSE local_env
    /\ previous_state' = None
    /\ iter' = 0
    /\ pc' = "infer"
    /\ UNCHANGED <<exprs, exprs0, global_env, idx, result>>
    /\ UNCHANGED varsPrim

\* infer_types: the next top-level expression gets a copy of the global
\* environment; infer_types_with_env starts on it.
StartExpr ==
    /\ pc = "next"
    /\ idx <= Len(exprs)
    /\ local_env' = global_env
    /\ previous_state' = None
    /\ iter' = 0
    /\ pc' = "infer"
    /\ UNCHANGED <<exprs, exprs0, global_env, idx, result>>
    /\ UNCHANGED varsPrim

\* infer_types_with_env: one pass of Upward Propagation and what follows it.
InferPass ==
    /\ pc = "infer"
    /\ \E st \in {fixpoint_step(exprs[idx], local_env, previous_state, iter)} :
        /\ exprs' = [exprs EXCEPT ![idx] = st.node]
        /\ local_env' = st.env
        /\ previous_state' = st.prev
        /\ iter' = IF st.go = "continue" THEN iter + 1 ELSE iter
        /\ result' = st.err
        /\ pc' = CASE st.go = "continue" -> "infer"
                   [] st.go = "ok" -> "next"
                   [] st.go = "err" -> "done"
        /\ idx' = IF st.go = "ok" THEN idx + 1 ELSE idx
    /\ UNCHANGED <<exprs0, global_env>>
    /\ UNCHANGED varsPrim

\* infer_types: Ok(exprs)
Finish ==
    /\ pc = "next"
    /\ idx > Len(exprs)
    /\ pc' = "done"
    /\ UNCHANGED <<exprs, exprs0, global_env, idx, local_env, previous_state, iter, result>>
    /\ UNCHANGED varsPrim

Next == SeedGlobalEnv \/ StartExpr \/ InferPass \/ Finish

Spec == Init /\ [][Next]_vars

Succeeded == pc = "done" /\ result = NoErr

(***************************************************************************)
(* Relations on Types used to state the claims about the primitives.       *)
(***************************************************************************)
RECURSIVE Resolved(_)
\* No Unknown occurs anywhere inside t.
Resolved(t) ==
    /\ t # Unknown
    /\ t.tag = "Function" =>
          /\ \A i \in 1..Len(t.params) : Resolved(t.params[i])
          /\ Resolved(t.ret)

RECURSIVE AtLeastAsSpecific(_, _)
\* new is old with zero or more Unknown positions filled in.
AtLeastAsSpecific(new, old) ==
    \/ old = Unknown
    \/ /\ new.tag = old.tag
       /\ old.tag = "Scalar" => new.kind = old.kind
       /\ old.tag = "Function" =>
             /\ Len(new.params) = Len(old.params)
             /\ \A i \in 1..Len(old.params) : AtLeastAsSpecific(new.params[i], old.params[i])
             /\ AtLeastAsSpecific(new.ret, old.ret)

RECURSIVE Unifiable(_, _)
\* At no position are a and b both resolved to different shapes, kinds or arities.
Unifiable(a, b) ==
    \/ a = Unknown
    \/ b = Unknown
    \/ /\ a.tag = b.tag
       /\ a.tag = "Scalar" => a.kind = b.kind
       /\ a.tag = "Function" =>
             /\ Len(a.params) = Len(b.params)
             /\ \A i \in 1..Len(a.params) : Unifiable(a.params[i], b.params[i])
             /\ Unifiable(a.ret, b.ret)

RECURSIVE PushRule(_, _)
\* The reference rule of push as the specification words it: the outcome
\* (receiver, changed, failed) of pushing other into self.
PushRule(self, other) ==
    IF other = Unknown THEN [ty |-> self, changed |-> FALSE, failed |-> FALSE]
    ELSE IF self = Unknown THEN [ty |-> other, changed |-> TRUE, failed |-> FALSE]
    ELSE IF self.tag = "Scalar" /\ other.tag = "Scalar" /\ self.kind = other.kind
         THEN [ty |-> self, changed |-> FALSE, failed |-> FALSE]
    ELSE IF self.tag = "Unit" /\ other.tag = "Unit"
         THEN [ty |-> self, changed |-> FALSE, failed |-> FALSE]
    ELSE IF self.tag = "Function" /\ other.tag = "Function"
              /\ Len(self.params) = Len(other.params)
         THEN LET sub == [i \in 1..Len(self.params) |-> PushRule(self.params[i], other.params[i])]
                  r == PushRule(self.ret, other.ret)
              IN [ty |-> Function([i \in 1..Len(self.params) |-> sub[i].ty], r.ty),
                  changed |-> r.changed \/ \E i \in 1..Len(self.params) : sub[i].changed,
                  failed |-> r.failed \/ \E i \in 1..Len(self.params) : sub[i].failed]
    ELSE [ty |-> self, changed |-> FALSE, failed |-> TRUE]

CallsOf(op) == {i \in 1..Len(calls) : calls[i].op = op}
Ok(c) == c.err = NoErr

(***************************************************************************)
(* Claims about the primitives (checked under SpecPrim).                   *)
(***************************************************************************)

\* C2: every push(self, other) behaves as the reference rule: no-op on an
\* Unknown argument, copy into an Unknown receiver, success without change for
\* equal Scalars and for Unit against Unit, recursive push for Functions of
\* equal arity, and a type-mismatch error in every other case.
C2_PushFollowsReferenceRule ==
    \A i \in CallsOf("push") :
        LET c == calls[i]
            ref == PushRule(c.self0, c.other0)
        IN /\ ref.failed <=> c.err = TypeMismatch
           /\ ~ref.failed => (c.self = ref.ty /\ c.changed = ref.changed)

\* C3: sync(a, b) on unifiable a, b succeeds and leaves a = b; on a, b that
\* are not unifiable it returns an error, in either call order.
C3_SyncUnifies ==
    \A i \in CallsOf("sync") \cup CallsOf("sync_back") :
        LET c == calls[i] IN
        IF Unifiable(c.self0, c.other0)
        THEN Ok(c) /\ c.self = c.other
        ELSE ~Ok(c)

\* C4: push_complete(self, other) succeeds without change when self equals
\* other (whatever other is), assigns other and reports change when self is
\* Unknown and differs from other, and otherwise errors leaving self as it was.
C4_PushCompleteRule ==
    \A i \in CallsOf("push_complete") :
        LET c == calls[i] IN
        IF c.self0 = c.other0
        THEN Ok(c) /\ ~c.changed /\ c.self = c.self0
        ELSE IF c.self0 = Unknown
        THEN Ok(c) /\ c.changed /\ c.self = c.other0
        ELSE ~Ok(c) /\ c.self = c.self0

\* C5: after any successful push, sync or push_complete every Type the call
\* could mutate is at least as specific as before it, and after a successful
\* push the receiver is at least as specific as the pushed Type.
C5_PrimitivesOnlyAddInformation ==
    \A i \in 1..Len(calls) :
        LET c == calls[i] IN
        Ok(c) =>
            /\ AtLeastAsSpecific(c.self, c.self0)
            /\ AtLeastAsSpecific(c.other, c.other0)
            /\ c.op = "push" => AtLeastAsSpecific(c.self, c.other0)

\* C5 witness: a successful push that filled an Unknown position nested in a
\* Function receiver that already carried information of its own.
C5_Witness ==
    \E i \in CallsOf("push") :
        /\ Ok(calls[i]) /\ calls[i].changed
        /\ calls[i].self0.tag = "Function"
        /\ calls[i].self # calls[i].other0

\* C6: pushing a resolved Type t into an Unknown receiver makes the receiver t
\* and reports change; pushing the same t again succeeds and reports no change.
C6_PushResolvedThenIdempotent ==
    (/\ Len(calls) >= 1
     /\ calls[1].op = "push"
     /\ calls[1].self0 = Unknown
     /\ Resolved(calls[1].other0))
    => /\ Ok(calls[1]) /\ calls[1].changed /\ calls[1].self = calls[1].other0
       /\ (Len(calls) >= 2 /\ calls[2].op = "push")
            => (Ok(calls[2]) /\ ~calls[2].changed /\ calls[2].self = calls[1].other0)

(***************************************************************************)
(* Trees and programs, as the claims about inference speak of them.        *)
(***************************************************************************)
Range(q) == {q[i] : i \in DOMAIN q}

\* The nodes a node owns directly.
Owned(node) ==
    CASE node.kind \in {"Identifier", "Literal"} -> {}
      [] node.kind = "UnaryExpr" -> {node.child}
      [] node.kind = "BinaryExpr" -> {node.lhs, node.rhs}
      [] node.kind \in {"Return", "Assignment"} -> {node.value}
      [] node.kind = "Conditional" -> {node.cond, node.on_true, node.on_false}
      [] node.kind = "Loop" -> {node.cond} \cup Range(node.body)
      [] node.kind = "Function" -> Range(node.body)
      [] node.kind = "Call" -> Range(node.args)
      [] node.kind = "Block" -> Range(node.exprs)

RECURSIVE Nodes(_)
\* Every node of the tree.
Nodes(node) == {node} \cup UNION {Nodes(c) : c \in Owned(node)}

RECURSIVE NodesOutsideLoops(_)
\* Every node of the tree that is not inside a Loop's condition or body.
NodesOutsideLoops(node) ==
    IF node.kind = "Loop" THEN {node}
    ELSE {node} \cup UNION {NodesOutsideLoops(c) : c \in Owned(node)}

\* The top-level expressions the Fixpoint Driver has returned success on.
Inferred == IF pc = "seed" THEN {} ELSE {i \in 1..Len(exprs) : i < idx}
\* The Fixpoint Driver returned an error on top-level expression i.
FailedOn(i) == pc = "done" /\ result # NoErr /\ idx = i

FunctionNames(p) == {p[i].ident : i \in {j \in 1..Len(p) : p[j].kind = "Function"}}
\* The last top-level declaration of the name n.
LastDeclaration(p, n) ==
    CHOOSE j \in 1..Len(p) :
        /\ p[j].kind = "Function" /\ p[j].ident = n
        /\ \A k \in (j + 1)..Len(p) : ~(p[k].kind = "Function" /\ p[k].ident = n)
\* The top-level Function nodes' pre-inference types, by name.
SeededBindings == [n \in FunctionNames(exprs0) |-> exprs0[LastDeclaration(exprs0, n)].ty]

(***************************************************************************)
(* Claims about the drivers (checked under Spec).                          *)
(***************************************************************************)

\* C1: whenever the Program Driver or the Fixpoint Driver returns success,
\* every node of the tree has a resolved type: no Unknown occurs in any
\* node's ty, also not inside a Function type.
C1_SuccessMeansResolved ==
    \A i \in Inferred : \A n \in Nodes(exprs[i]) : Resolved(n.ty)

\* A fully annotated declaration at i and, at j, a call of it whose
\* arguments are literals of the declared parameter types.
AnnotatedCall(p, i, j) ==
    /\ p[i].kind = "Function" /\ Resolved(p[i].ty)
    /\ p[j].kind = "Call" /\ p[j].ident = p[i].ident
    /\ Len(p[j].args) = Len(p[i].params)
    /\ \A k \in 1..Len(p[j].args) :
         p[j].args[k].kind = "Literal" /\ p[j].args[k].ty = p[i].params[k].ty

\* C7: a program that defines a fully annotated top-level function and
\* calls it later with arguments of the declared parameter types is
\* inferred, and the Call node's type is the declared return type.
C7_AnnotatedCallIsTyped ==
    \A j \in 1..Len(exprs0) : \A i \in 1..(j - 1) :
        AnnotatedCall(exprs0, i, j) =>
            /\ ~FailedOn(j)
            /\ j \in Inferred => exprs[j].ty = exprs0[i].ty.ret

\* C8: the environment the Fixpoint Driver starts with on a top-level
\* expression holds exactly the bindings seeded from the top-level Function
\* nodes' pre-inference types, nothing learned on the expressions before
\* it; `x = 1` followed by `x` fails with undefined-identifier.
C8_EachExpressionStartsFromSeed ==
    /\ (pc = "infer" /\ iter = 0) => local_env = SeededBindings
    /\ (pc = "done" /\ exprs0 = <<Assignment("x", Literal("Int")), Identifier("x")>>)
           => result = Err("undefined-identifier", "x")

\* The second expression starts from the seed although inference of the
\* first one bound or refined a name.
C8_Witness ==
    /\ pc = "infer" /\ iter = 0 /\ idx = 2
    /\ \/ exprs0[1].kind = "Assignment"
       \/ exprs0[1].kind = "Function" /\ exprs[1].ty # exprs0[1].ty

\* C9: before the Fixpoint Driver runs on any top-level expression the
\* global environment binds the name of every top-level Function, declared
\* earlier or later, to its pre-inference type; no Call of a top-level
\* function fails with function-not-defined.
C9_TopLevelFunctionsAreSeeded ==
    /\ pc # "seed" =>
         \A n \in FunctionNames(exprs0) :
             /\ contains_key(global_env, n)
             /\ global_env[n] = exprs0[LastDeclaration(exprs0, n)].ty
    /\ result.kind = "function-not-defined" => result.ident \notin FunctionNames(exprs0)

\* A call of a function declared later has been inferred up to its first
\* error, which is not function-not-defined.
C9_Witness ==
    /\ pc = "done" /\ idx = 1 /\ Len(exprs0) = 2
    /\ exprs0[2].kind = "Function"
    /\ \E n \in Nodes(exprs0[1]) : n.kind = "Call" /\ n.ident = exprs0[2].ident
    /\ result # NoErr

\* A literal or the name of a parameter.
Plain(e, ps) ==
    \/ e.kind = "Literal"
    \/ e.kind = "Identifier" /\ \E k \in 1..Len(ps) : ps[k].ident = e.name
DeclaredType(e, ps) ==
    IF e.kind = "Literal" THEN Scalar(e.lit)
    ELSE ps[CHOOSE k \in 1..Len(ps) :
               ps[k].ident = e.name /\ \A m \in (k + 1)..Len(ps) : ps[m].ident # e.name].ty
Returned(s) == IF s.kind = "Return" THEN s.value ELSE s
\* A fully annotated declaration whose statements are literals, parameters
\* or returns of them, the last one of the declared return type.
PlainAnnotatedFunction(f) ==
    /\ f.kind = "Function" /\ Resolved(f.ty) /\ Len(f.body) > 0
    /\ \A k \in 1..Len(f.body) : Plain(Returned(f.body[k]), f.params)
    /\ DeclaredType(Returned(f.body[Len(f.body)]), f.params) = f.ty.ret

\* ty is Function(the parameters' types in declaration order, the type of
\* the last body statement).
TypedBySignatureAndBody(n) ==
    n.ty = Function([k \in 1..Len(n.params) |-> n.params[k].ty], n.body[Len(n.body)].ty)

Conditionals(i) == {n \in NodesOutsideLoops(exprs[i]) : n.kind = "Conditional"}
\* The arms are resolved to different types, or the condition to a non-Bool type.
ArmsOrConditionDisagree(n) ==
    \/ Resolved(n.on_true.ty) /\ Resolved(n.on_false.ty) /\ n.on_true.ty # n.on_false.ty
    \/ Resolved(n.cond.ty) /\ n.cond.ty # BoolT
\* The error kinds other than type-mismatch that the rules raise: the
\* traversal ended in another node's rule before it reached the node's own.
AnotherRuleFailed ==
    result.kind \in {"undefined-identifier", "not-numeric", "expected-function-type",
                     "function-not-defined", "not-a-function", "arity-mismatch",
                     "argument-type"}

SeededEnv == seed_global_env(exprs0, EmptyEnv, 1)
\* The Fixpoint Driver has returned on top-level expression i.
Ended(i) == i \in Inferred \/ FailedOn(i)
\* The Fixpoint Driver has just returned success on top-level expression i:
\* local_env is the environment its run ended with.
JustInferred(i) == pc = "next" /\ idx = i + 1
\* Top-level expression i is an assignment; v is the outcome of inferring its
\* value on its own. If the value resolves, the run on the assignment
\* succeeds with the node typed like the value and ident bound to that type.
AssignmentTypedLikeValue(i, v) ==
    (v.go = "ok" /\ Ended(i)) =>
        /\ i \in Inferred
        /\ exprs[i].ty = v.node.ty
        /\ JustInferred(i) =>
              /\ contains_key(local_env, exprs0[i].ident)
              /\ local_env[exprs0[i].ident] = v.node.ty
TopLevelAssignments == {i \in 1..Len(exprs0) : exprs0[i].kind = "Assignment"}

\* C12 as stated: a top-level assignment ident = value whose value resolves
\* to type T is inferred with success, the Assignment node is typed T, and
\* the environment the run ends with binds ident to T.
C12_AssignmentTyped ==
    \A i \in TopLevelAssignments :
        AssignmentTypedLikeValue(i, infer_types_with_env(exprs0[i].value, SeededEnv))

\* C12, amended: the same for an assignment whose ident is not the name of a
\* top-level function (the seeded environment has no binding for it).
C12_AssignmentToUnboundNameTyped ==
    \A i \in TopLevelAssignments :
        ~contains_key(SeededEnv, exprs0[i].ident) =>
            AssignmentTypedLikeValue(i, infer_types_with_env(exprs0[i].value, SeededEnv))
\* x = 1 gives node type Scalar(Int) and the binding x: Scalar(Int).
C12_Witness ==
    /\ exprs0 = <<Assignment("x", Literal("Int"))>>
    /\ JustInferred(1)
    /\ exprs[1].ty = IntT
    /\ local_env = insert(EmptyEnv, "x", IntT)

TopLevelLoops == {i \in 1..Len(exprs0) : exprs0[i].kind = "Loop"}

\* C13: a Loop node is typed Unit whatever its condition and body are. A
\* top-level Loop whose type is Unknown or Unit before inference is inferred
\* with success and typed Unit, its condition and body left as they were; one
\* with any other pre-set type ends the run with type-mismatch; and every
\* Loop node of an inferred expression that the traversal reaches is typed Unit.
C13_LoopIsUnit ==
    /\ \A i \in TopLevelLoops :
          /\ exprs[i].cond = exprs0[i].cond /\ exprs[i].body = exprs0[i].body
          /\ Ended(i) =>
                IF exprs0[i].ty \in {Unknown, Unit}
                THEN i \in Inferred /\ exprs[i].ty = Unit
                ELSE FailedOn(i) /\ result = TypeMismatch /\ exprs[i].ty = exprs0[i].ty
    /\ \A i \in Inferred : \A n \in NodesOutsideLoops(exprs[i]) :
          n.kind = "Loop" => n.ty = Unit
\* while (true) { 1 } succeeds with node type Unit.
C13_Witness ==
    /\ Succeeded
    /\ exprs0 = <<Loop(Literal("Bool"), <<Literal("Int")>>)>>
    /\ exprs[1].ty = Unit

RECURSIVE IntArithmetic(_)
\* Built from Int literals with unary operators and arithmetic binary operators.
IntArithmetic(e) ==
    CASE e.kind = "Literal" -> e.lit = "Int"
      [] e.kind = "UnaryExpr" -> IntArithmetic(e.child)
      [] e.kind = "BinaryExpr" ->
            ~is_comparison(e.op) /\ IntArithmetic(e.lhs) /\ IntArithmetic(e.rhs)
      [] OTHER -> FALSE
\* A literal is typed by its kind, a unary or binary node Scalar(Int).
TypedAsArithmetic(n) ==
    CASE n.kind = "Literal" -> n.ty = Scalar(n.lit)
      [] n.kind \in {"UnaryExpr", "BinaryExpr"} -> n.ty = IntT
      [] OTHER -> FALSE
RECURSIVE Depth(_)
Depth(e) ==
    CASE e.kind = "UnaryExpr" -> 1 + Depth(e.child)
      [] e.kind = "BinaryExpr" ->
            1 + (IF Depth(e.lhs) > Depth(e.rhs) THEN Depth(e.lhs) ELSE Depth(e.rhs))
      [] OTHER -> 1

\* C14: the run on a top-level expression that is a literal, or is built from
\* Int literals with unary operators and arithmetic binary operators, ends
\* with success; every literal in it is typed by its kind and every unary and
\* binary node Scalar(Int).
C14_ArithmeticIsInt ==
    \A i \in 1..Len(exprs0) :
        (Ended(i) /\ (exprs0[i].kind = "Literal" \/ IntArithmetic(exprs0[i]))) =>
            /\ i \in Inferred
            /\ \A n \in Nodes(exprs[i]) : TypedAsArithmetic(n)
\* An arithmetic expression nested three levels deep, with a binary node in it.
C14_Witness ==
    /\ Succeeded
    /\ IntArithmetic(exprs0[1]) /\ Depth(exprs0[1]) >= 3
    /\ \E n \in Nodes(exprs[1]) : n.kind = "BinaryExpr" /\ n.ty = IntT

\* The Binary nodes of top-level expression i outside every Loop whose
\* operands are resolved to different types.
DisagreeingBinaries(i) ==
    {n \in NodesOutsideLoops(exprs[i]) :
        /\ n.kind = "BinaryExpr"
        /\ Resolved(n.lhs.ty) /\ Resolved(n.rhs.ty) /\ n.lhs.ty # n.rhs.ty}

\* C15: a Binary node, arithmetic or comparison, whose operands are resolved
\* to different types is never in an expression the run succeeded on, and
\* the run that reaches its rule ends with type-mismatch.
C15_BinaryOperandsAgree ==
    \A i \in 1..Len(exprs) :
        DisagreeingBinaries(i) # {} =>
            /\ i \notin Inferred
            /\ FailedOn(i) => (result = TypeMismatch \/ AnotherRuleFailed)
\* 1 + true fails with a type-mismatch error.
C15_Witness ==
    /\ exprs0 = <<BinaryExpr("Add", Literal("Int"), Literal("Bool"))>>
    /\ FailedOn(1) /\ result = TypeMismatch
    /\ DisagreeingBinaries(1) # {}

TopLevelIdentifiers == {i \in 1..Len(exprs0) : exprs0[i].kind = "Identifier"}

\* C16: the run on a top-level Identifier whose name the environment does not
\* bind ends with the undefined-identifier error for that name; when the name
\* is bound, the run succeeds with the node typed with the bound type and the
\* environment as it was. A run that ends with undefined-identifier names an
\* identifier that the environment does not bind at that moment.
C16_IdentifierLooksUpEnvironment ==
    /\ \A i \in TopLevelIdentifiers :
          Ended(i) =>
              IF contains_key(SeededEnv, exprs0[i].name)
              THEN /\ i \in Inferred
                   /\ exprs[i].ty = SeededEnv[exprs0[i].name]
                   /\ JustInferred(i) => local_env = SeededEnv
              ELSE /\ FailedOn(i)
                   /\ result = Err("undefined-identifier", exprs0[i].name)
                   /\ local_env = SeededEnv
    /\ (pc = "done" /\ result.kind = "undefined-identifier") =>
          /\ ~contains_key(local_env, result.ident)
          /\ \E n \in NodesOutsideLoops(exprs[idx]) :
                n.kind = "Identifier" /\ n.name = result.ident /\ n.ty = Unknown
\* def f..; f: the identifier is typed with f's binding, the environment kept.
C16_Witness ==
    /\ Len(exprs0) = 2 /\ exprs0[2] = Identifier("f")
    /\ JustInferred(2)
    /\ exprs[2].ty = exprs0[1].ty
    /\ local_env = SeededEnv

\* The pass the step makes over top-level expression idx returned normally.
PassReturnedNormally == pc = "infer" /\ pc' \in {"infer", "next"}

\* C17: when infer_up returns normally from a (top-level) Function node, the
\* environment entry of every parameter name is what it was before the call:
\* the prior type if the name was bound, none if it was not.
C17_ParameterBindingsRestored ==
    [][(PassReturnedNormally /\ exprs[idx].kind = "Function") =>
          \A k \in 1..Len(exprs[idx].params) :
              previous(local_env', exprs[idx].params[k].ident)
                  = previous(local_env, exprs[idx].params[k].ident)]_vars

\* The nodes a node owns directly, in order.
OwnedSeq(node) ==
    CASE node.kind \in {"Identifier", "Literal"} -> <<>>
      [] node.kind = "UnaryExpr" -> <<node.child>>
      [] node.kind = "BinaryExpr" -> <<node.lhs, node.rhs>>
      [] node.kind \in {"Return", "Assignment"} -> <<node.value>>
      [] node.kind = "Conditional" -> <<node.cond, node.on_true, node.on_false>>
      [] node.kind = "Loop" -> <<node.cond>> \o node.body
      [] node.kind = "Function" -> node.body
      [] node.kind = "Call" -> node.args
      [] node.kind = "Block" -> node.exprs

RECURSIVE KeepsInformation(_, _)
\* Node by node, the tree new has every type of the tree old at least as
\* specific: nothing resolved in old is Unknown or different in new.
KeepsInformation(old, new) ==
    /\ AtLeastAsSpecific(new.ty, old.ty)
    /\ \A k \in 1..Len(OwnedSeq(old)) :
          KeepsInformation(OwnedSeq(old)[k], OwnedSeq(new)[k])
\* Within a pass: d is the node after the descent of infer_up, l the outcome
\* of Local Determination on it.
LocalRuleKeepsInformation(d, l) ==
    (d.err = NoErr /\ l.err = NoErr) => KeepsInformation(d.node, l.node)
DescentThenLocalRuleKeepInformation(d) == LocalRuleKeepsInformation(d, up_locally(d))
PassKeepsInformation == KeepsInformation(exprs[idx], exprs'[idx])
WithinPassKeepsInformation ==
    DescentThenLocalRuleKeepInformation(
        undo(up_match(bind_before_match(exprs[idx], local_env))))

\* C18: in every step of a Fixpoint Driver run each node's type only gains
\* information, from one pass to the next and, within a pass, from the
\* descent into the top-level node to the local rule applied to it: nothing
\* resolved becomes Unknown or a different resolved type, for every node kind.
C18_TypesOnlyGainInformation ==
    [][pc = "infer" => (PassKeepsInformation /\ WithinPassKeepsInformation)]_vars

\* Top-level expression i is inferred like the earlier driver s infers it:
\* where that one ends in success, the Fixpoint Driver's run does too, with
\* the same node types.
InferredLikeEarlierDriver(i, s) ==
    (Ended(i) /\ s.go = "ok") => (i \in Inferred /\ exprs[i] = s.node)

\* C19: whenever repeating Upward Propagation until a pass reports no change
\* ends in success on a top-level expression, the Fixpoint Driver with the
\* environment-snapshot check also ends in success on it, with the same
\* final node types; so inference-loop-detected is returned only where the
\* earlier driver does not end in success.
C19_SnapshotCheckPreservesSuccess ==
    \A i \in 1..Len(exprs0) :
        InferredLikeEarlierDriver(i, repeat_infer_up(exprs0[i], SeededEnv, 0))

\* Top-level expression i, as parsed, holds a Call node outside every Loop.
HoldsCall(i) == \E n \in NodesOutsideLoops(exprs0[i]) : n.kind = "Call"

PassReportedNoChange ==
    pc = "infer" /\ (pc' = "next" \/ (pc' = "done" /\ result'.kind = "could-not-infer"))

\* C21: whenever infer_up returns Ok(false) for a (top-level) node, the node
\* and every node of its subtree have exactly the types they had before the
\* call.
C21_NoChangeReportedMeansNoChange ==
    [][PassReportedNoChange => exprs'[idx] = exprs[idx]]_vars

\* r is the outcome of one more pass over the tree e: no error, no change
\* reported, no node type modified.
NothingLeftToInfer(e, r) == r.err = NoErr /\ ~r.changed /\ r.node = e

\* C22: when the Fixpoint Driver has returned success on a top-level
\* expression, running Upward Propagation once more on the resulting tree
\* with the resulting environment returns without error, reports no change
\* and modifies no node type.
C22_SuccessIsFixpoint ==
    \A i \in 1..Len(exprs) :
        JustInferred(i) => NothingLeftToInfer(exprs[i], infer_up(exprs[i], local_env))
\* A run of two passes that typed a Conditional over two function names.
C22_Witness ==
    /\ Len(exprs) = 3 /\ JustInferred(3) /\ iter = 1
    /\ exprs[3].kind = "Conditional" /\ exprs[3].ty = exprs[3].on_true.ty
    /\ exprs[3].ty # exprs0[3].ty

RECURSIVE LoopsUntouched(_, _)
\* Position by position, every Loop of the tree old has in the tree new the
\* condition and the body it has in old.
LoopsUntouched(old, new) ==
    IF old.kind = "Loop" THEN new.cond = old.cond /\ new.body = old.body
    ELSE \A k \in 1..Len(OwnedSeq(old)) : LoopsUntouched(OwnedSeq(old)[k], OwnedSeq(new)[k])

RECURSIVE WithoutLoopContents(_)
\* The tree with the condition of every Loop replaced by a literal and its
\* body emptied.
WithoutLoopContents(e) ==
    CASE e.kind \in {"Identifier", "Literal"} -> e
      [] e.kind = "Loop" -> [e EXCEPT !.cond = Literal("Bool"), !.body = <<>>]
      [] e.kind = "UnaryExpr" -> [e EXCEPT !.child = WithoutLoopContents(e.child)]
      [] e.kind = "BinaryExpr" ->
            [e EXCEPT !.lhs = WithoutLoopContents(e.lhs), !.rhs = WithoutLoopContents(e.rhs)]
      [] e.kind \in {"Return", "Assignment"} ->
            [e EXCEPT !.value = WithoutLoopContents(e.value)]
      [] e.kind = "Conditional" ->
            [e EXCEPT !.cond = WithoutLoopContents(e.cond),
                      !.on_true = WithoutLoopContents(e.on_true),
                      !.on_false = WithoutLoopContents(e.on_false)]
      [] e.kind = "Function" ->
            [e EXCEPT !.body = [k \in 1..Len(e.body) |-> WithoutLoopContents(e.body[k])]]
      [] e.kind = "Call" ->
            [e EXCEPT !.args = [k \in 1..Len(e.args) |-> WithoutLoopContents(e.args[k])]]
      [] e.kind = "Block" ->
            [e EXCEPT !.exprs = [k \in 1..Len(e.exprs) |-> WithoutLoopContents(e.exprs[k])]]
\* The run on top-level expression i failed with an error other than
\* could-not-infer; r is the outcome of the run on the expression without its
\* loops' contents: it is the same error.
ErrorNotFromLoopContents(i, r) ==
    (FailedOn(i) /\ result.kind # "could-not-infer") => r.err = result

\* C23: Upward Propagation never descends into a Loop. In every state of a
\* run the nodes of every Loop's condition and body are as parsed, and an
\* error the run ends with, could-not-infer aside, does not originate in
\* them: the run on the same expression without the loops' contents ends
\* with the same error.
C23_LoopContentsUntouched ==
    \A i \in 1..Len(exprs0) :
        /\ LoopsUntouched(exprs0[i], exprs[i])
        /\ ErrorNotFromLoopContents(
               i, infer_types_with_env(WithoutLoopContents(exprs0[i]), SeededEnv))
\* while (true) { 1 + true } raises no type-mismatch.
C23_Witness ==
    /\ exprs0 = <<Loop(Literal("Bool"), <<BinaryExpr("Add", Literal("Int"), Literal("Bool"))>>)>>
    /\ Ended(1) /\ result # TypeMismatch
    /\ exprs[1].body = exprs0[1].body

RECURSIVE ParserAnnotated(_)
\* Typed as the parser types a tree: literals by kind, Loop nodes Unit,
\* Function nodes with their signature, every other node Unknown.
ParserAnnotated(e) ==
    /\ CASE e.kind = "Literal" -> e.ty = Scalar(e.lit)
          [] e.kind = "Loop" -> e.ty = Unit
          [] e.kind = "Function" ->
                /\ e.ty.tag = "Function"
                /\ e.ty.params = [k \in 1..Len(e.params) |-> e.params[k].ty]
          [] OTHER -> e.ty = Unknown
    /\ \A c \in Owned(e) : ParserAnnotated(c)
\* The tree holds a Loop whose condition or body holds a node typed Unknown.
LoopWithUntypedContents(e) ==
    \E l \in Nodes(e) :
        l.kind = "Loop" /\ \E c \in Owned(l) : \E n \in Nodes(c) : n.ty = Unknown
\* r is the outcome of the run on the expression without its loops'
\* contents: where that run succeeds, nothing but the loops' contents stands
\* in the way, and the run on top-level expression i ends with could-not-infer.
EndsCouldNotInfer(i, r) ==
    (Ended(i) /\ r.go = "ok") => (FailedOn(i) /\ result.kind = "could-not-infer")

\* C24: for a tree typed as the parser types it, the Fixpoint Driver never
\* returns success on an expression that holds a Loop whose condition or
\* body holds a node typed Unknown; unless another error ends the run, it
\* ends with could-not-infer.
C24_LoopWithUntypedContentsFails ==
    \A i \in 1..Len(exprs0) :
        (ParserAnnotated(exprs0[i]) /\ LoopWithUntypedContents(exprs0[i])) =>
            /\ i \notin Inferred
            /\ EndsCouldNotInfer(
                   i, infer_types_with_env(WithoutLoopContents(exprs0[i]), SeededEnv))
\* while (x < 1) { x = x + 1 } ends with could-not-infer.
C24_Witness ==
    /\ exprs0 = <<Loop(BinaryExpr("LessThan", Identifier("x"), Literal("Int")),
                       <<Assignment("x", BinaryExpr("Add", Identifier("x"), Literal("Int")))>>)>>
    /\ FailedOn(1) /\ result.kind = "could-not-infer"

EmptyFunctions ==
    {i \in 1..Len(exprs0) : exprs0[i].kind = "Function" /\ exprs0[i].body = <<>>}

\* C25: on a (top-level) Function with an empty body the return-type slot
\* gets push_complete(Unit): an Unknown or Unit slot ends as Unit and the run
\* succeeds; a slot resolved to anything else makes the run fail with
\* type-mismatch, the slot left as it was.
C25_EmptyBodyPushesUnit ==
    \A i \in EmptyFunctions :
        Ended(i) =>
            IF exprs0[i].ty.ret \in {Unknown, Unit}
            THEN i \in Inferred /\ exprs[i].ty.ret = Unit
            ELSE FailedOn(i) /\ result = TypeMismatch
                 /\ exprs[i].ty.ret = exprs0[i].ty.ret

\* The return statements of the Function node f outside every Loop.
ReturnsOf(f) ==
    {n \in UNION {NodesOutsideLoops(f.body[k]) : k \in 1..Len(f.body)} : n.kind = "Return"}
\* The Function nodes of the tree outside every Loop.
FunctionsIn(e) == {n \in NodesOutsideLoops(e) : n.kind = "Function"}

\* C26: in every expression the run succeeded on, the value of each return
\* statement of a function's body outside loops, at any position, has the
\* type of the Function node's return slot; and a function declared with a
\* scalar return type whose body holds a return of a literal of another kind
\* is rejected, with type-mismatch unless another node's rule fails first.
C26_ReturnsAgreeWithReturnType ==
    \A i \in 1..Len(exprs) :
        /\ i \in Inferred =>
              \A f \in FunctionsIn(exprs[i]) : \A r \in ReturnsOf(f) : r.value.ty = f.ty.ret
        /\ (Ended(i) /\ \E f \in FunctionsIn(exprs0[i]) : \E r \in ReturnsOf(f) :
                          /\ f.ty.ret.tag = "Scalar" /\ r.value.kind = "Literal"
                          /\ r.value.ty # f.ty.ret)
              => (FailedOn(i) /\ (result = TypeMismatch \/ AnotherRuleFailed))

\* d is the top-level Call idx after the descent of infer_up, its arguments
\* inferred and the callee bound to a Function type: the step ends with the
\* arity error if the counts differ, else with the argument type error
\* unless every argument's type equals the parameter's type, the node's type
\* as the descent left it; else the node is typed with the return type.
CallCheckedExactly(d) ==
    (/\ d.err = NoErr
     /\ contains_key(d.env, d.node.ident)
     /\ d.env[d.node.ident].tag = "Function") =>
        IF Len(d.node.args) # Len(d.env[d.node.ident].params)
        THEN /\ pc' = "done" /\ result'.kind = "arity-mismatch"
             /\ exprs'[idx].ty = d.node.ty
        ELSE IF \E k \in 1..Len(d.node.args) :
                    d.node.args[k].ty # d.env[d.node.ident].params[k]
        THEN /\ pc' = "done" /\ result'.kind = "argument-type"
             /\ exprs'[idx].ty = d.node.ty
        ELSE /\ result'.kind \notin {"arity-mismatch", "argument-type"}
             /\ exprs'[idx].ty = d.env[d.node.ident].ret

\* C27: Local Determination on a Call fails with the arity error whenever
\* the number of arguments differs from the callee's parameter count, and
\* otherwise with the argument type error unless every argument's type is
\* exactly the parameter's type, an Unknown argument or parameter included;
\* in the failing cases the node is not assigned the return type.
C27_CallArgumentsCheckedExactly ==
    [][(pc = "infer" /\ exprs[idx].kind = "Call") =>
          CallCheckedExactly(undo(up_match(bind_before_match(exprs[idx], local_env))))]_vars
\* f(f(1)) for def f(x: int) { .. }: the inner call is typed Unknown, which
\* is not the parameter's type.
C27_Witness ==
    /\ Len(exprs0) = 2 /\ exprs0[2].kind = "Call" /\ Len(exprs0[2].args) = 1
    /\ FailedOn(2) /\ result.kind = "argument-type"
    /\ exprs[2].args[1].kind = "Call" /\ exprs[2].args[1].ty = Unknown
    /\ exprs[2].ty.tag = "Function"

\* The Assignment nodes of the tree that the traversal reaches.
ReachedAssignments(e) == {a \in NodesOutsideLoops(e) : a.kind = "Assignment"}
\* Two reached assignments of e give literals of different types to one name.
AssignsTwoTypes(e) ==
    \E a, b \in ReachedAssignments(e) :
        /\ a.ident = b.ident
        /\ a.value.kind = "Literal" /\ b.value.kind = "Literal"
        /\ a.value.ty # b.value.ty

\* C28: within one run of the Fixpoint Driver the environment type of a
\* name agrees with every reached assignment to it: when the run has just
\* returned success, the environment binds each assigned name to the type of
\* the value of each reached assignment to it, and a run over two reached
\* assignments of differently typed values to one name fails (with
\* type-mismatch unless another rule failed first).
C28_EnvironmentAgreesWithAssignments ==
    \A i \in 1..Len(exprs) :
        /\ JustInferred(i) =>
              \A a \in ReachedAssignments(exprs[i]) :
                  /\ contains_key(local_env, a.ident)
                  /\ local_env[a.ident] = a.value.ty
        /\ (Ended(i) /\ AssignsTwoTypes(exprs0[i])) =>
              (FailedOn(i) /\ (result = TypeMismatch \/ AnotherRuleFailed))
\* def f() { x = 1  x = true } fails with type-mismatch.
C28_Witness ==
    /\ Len(exprs0) = 1 /\ exprs0[1].kind = "Function" /\ exprs0[1].params = <<>>
    /\ exprs0[1].body = <<Assignment("x", Literal("Int")), Assignment("x", Literal("Bool"))>>
    /\ FailedOn(1) /\ result = TypeMismatch

\* d is the top-level UnaryExpr or BinaryExpr idx after the descent of
\* infer_up. A unary node over a child typed Bool, Unit or as a Function ends
\* the step with the not-numeric error, over an Unknown child it is left as
\* it is; a binary node over two Bool operands is accepted and typed
\* Scalar(Bool), arithmetic or comparison.
OperandsCheckedByUnaryOnly(d) ==
    d.err = NoErr =>
        /\ (d.node.kind = "UnaryExpr" /\ d.node.child.ty \notin {IntT, Unknown}) =>
              (pc' = "done" /\ result'.kind = "not-numeric")
        /\ (d.node.kind = "UnaryExpr" /\ d.node.child.ty = Unknown) =>
              (exprs'[idx] = d.node /\ result'.kind # "not-numeric")
        /\ (/\ d.node.kind = "BinaryExpr"
            /\ d.node.lhs.ty = BoolT /\ d.node.rhs.ty = BoolT
            /\ d.node.ty \in {Unknown, BoolT}) =>
              (exprs'[idx].ty = BoolT /\ result' = NoErr)

\* C29: the Binary rule places no numeric requirement on its operands while
\* the Unary rule does: an arithmetic or comparison Binary node over two
\* Bool-typed operands is accepted and typed Scalar(Bool); a Unary node over
\* a child resolved to Bool, Unit or a Function type is an error, and over an
\* Unknown child is left unchanged.
C29_OnlyUnaryRequiresNumeric ==
    [][(pc = "infer" /\ exprs[idx].kind \in {"UnaryExpr", "BinaryExpr"}) =>
          OperandsCheckedByUnaryOnly(undo(up_match(bind_before_match(exprs[idx], local_env))))]_vars
\* true + true is inferred with success and typed Scalar(Bool).
C29_Witness ==
    /\ exprs0 = <<BinaryExpr("Add", Literal("Bool"), Literal("Bool"))>>
    /\ JustInferred(1)
    /\ exprs[1].ty = BoolT

\* C30 as stated: the iteration ceiling is never what stops the Fixpoint
\* Driver; every run ends by success, a rule error, could-not-infer or
\* inference-loop-detected before the last pass the ceiling allows, so the
\* non-convergence error is unreachable.
C30_CeilingNeverReached == result.kind # "non-convergence"

\* C30, amended: the Fixpoint Driver always ends within max_iterations
\* passes; it ends with non-convergence exactly when the pass of the last
\* iteration reported a change and left an environment that differs from
\* the snapshot of the pass before.
C30_DriverEndsWithinCeiling ==
    /\ iter < max_iterations
    /\ result.kind = "non-convergence" =>
          /\ pc = "done" /\ iter = max_iterations - 1
          /\ previous_state = Some(local_env)
    /\ (pc = "infer" /\ iter > 0) =>
          (previous_state = Some(local_env) /\ result = NoErr)
\* def f() { f }: each pass nests the type of f once more, and the ceiling
\* stops the run.
C30_Witness ==
    /\ exprs0 = <<FunctionDef("f", <<>>, Unknown, <<Identifier("f")>>)>>
    /\ pc = "done" /\ result = Err("non-convergence", "")
    /\ iter = max_iterations - 1

====
